---- MODULE Spec2Model ----
(***************************************************************************)
(* Model of protocol-handler's Linux backend (src/linux/mod.rs): the       *)
(* DesktopEntry parser / mutator / serializer and the register and         *)
(* unregister flows that apply it to the handler's .desktop file.          *)
(*                                                                         *)
(* Text is modelled as a sequence of one-character strings, so that        *)
(* splitting, joining and prefix tests are computed the way the code       *)
(* computes them.  The carriage return is not in the alphabet of the       *)
(* inputs, so str::lines is a split on "\n" that drops a final empty       *)
(* piece.                                                                  *)
(***************************************************************************)
EXTENDS Integers, Sequences, FiniteSets

VARIABLES
    exe,       \* what current_exe() returns in this environment (a path)
    home,      \* whether the HOME environment variable is set
    files,     \* handler name -> content of its .desktop file, or NoFile
    pc,        \* process -> position in its register / unregister call
    call,      \* process -> the call it is running: op, name, protocol_name
    content,   \* process -> the String read by read_to_string
    de,        \* process -> the Result of DesktopEntry::try_from
    pre,       \* process -> the file as it was when the call started
    alone,     \* process -> no other call has been running during this one
    hist,      \* the calls that returned, in the order they returned
    s,         \* unit level: the String given to try_from
    res,       \* unit level: the Result of try_from(s)
    before,    \* unit level: de.data before the mutation
    data,      \* unit level: de.data now
    entry,     \* unit level: the argument of insert_scheme_handler
    out,       \* unit level: the result of to_string
    stage      \* unit level: which operations have been applied

vars == <<exe, home, files, pc, call, content, de, pre, alone, hist,
          s, res, before, data, entry, out, stage>>
flowVars == <<files, pc, call, content, de, pre, alone, hist>>
unitVars == <<s, res, before, data, entry, out, stage>>

----------------------------------------------------------------------------
(* Literals of the source *)

Header == <<"[","D","e","s","k","t","o","p"," ","E","n","t","r","y","]">>
SchemePrefix ==
    <<"x","-","s","c","h","e","m","e","-","h","a","n","d","l","e","r","/">>
MimeTypeKey == <<"M","i","m","e","T","y","p","e">>
ExecKey == <<"E","x","e","c">>
ExecSuffix == <<" ","%","u">>
NL == "\n"

----------------------------------------------------------------------------
(* str and Vec operations used by the source *)

\* str::split(char): the pieces between the separators, always at least one
Split(str, c) ==
    LET at == SelectSeq([i \in 1..Len(str) |-> i], LAMBDA i : str[i] = c)
        n == Len(at)
    IN  [k \in 1..(n + 1) |->
            SubSeq(str,
                   IF k = 1 THEN 1 ELSE at[k - 1] + 1,
                   IF k = n + 1 THEN Len(str) ELSE at[k] - 1)]

\* str::lines: the pieces between "\n", without a final empty piece
Lines(str) ==
    LET p == Split(str, NL)
    IN  IF p[Len(p)] = <<>> THEN SubSeq(p, 1, Len(p) - 1) ELSE p

RECURSIVE Join(_, _)
\* [String]::join(sep)
Join(strs, sep) ==
    IF strs = <<>> THEN <<>>
    ELSE IF Len(strs) = 1 THEN strs[1]
    ELSE strs[1] \o sep \o Join(Tail(strs), sep)

\* str::starts_with
StartsWith(str, prefix) ==
    /\ Len(str) >= Len(prefix)
    /\ SubSeq(str, 1, Len(prefix)) = prefix

----------------------------------------------------------------------------
(* IndexMap<String, String>: a sequence of <<key, value>>, keys unique *)

Keys(m) == {m[i][1] : i \in 1..Len(m)}
IndexOf(m, k) == CHOOSE i \in 1..Len(m) : m[i][1] = k
IndexMapGet(m, k) == m[IndexOf(m, k)][2]

\* a bug: insert of a present key moves the key to the end
IndexMapInsertMoves(m, k, v) ==
    Append(SelectSeq(m, LAMBDA e : e[1] # k), <<k, v>>)

\* IndexMap::insert: a present key keeps its place and gets the value
IndexMapInsert(m, k, v) ==
    IF k \in Keys(m) THEN [m EXCEPT ![IndexOf(m, k)] = <<k, v>>]
    ELSE Append(m, <<k, v>>)

\* a bug: insert instead of entry(k).or_insert
IndexMapOrInsertOverwrites(m, k, v) ==
    IF k \in Keys(m) THEN [m EXCEPT ![IndexOf(m, k)] = <<k, v>>]
    ELSE Append(m, <<k, v>>)

\* IndexMap::entry(k).or_insert(v)
IndexMapOrInsert(m, k, v) ==
    IF k \in Keys(m) THEN m ELSE Append(m, <<k, v>>)

\* IndexMap::shift_remove
IndexMapShiftRemove(m, k) == SelectSeq(m, LAMBDA e : e[1] # k)

----------------------------------------------------------------------------
(* DesktopEntry *)

ParseError(msg) == [ok |-> FALSE, err |-> "ParseError", msg |-> msg, data |-> <<>>]
Ok(m) == [ok |-> TRUE, err |-> "", msg |-> "", data |-> m]

\* a bug: a line that is not key=value is skipped
RECURSIVE ParseFieldsSkips(_, _, _)
ParseFieldsSkips(lines, i, m) ==
    IF i > Len(lines) THEN Ok(m)
    ELSE LET split == Split(lines[i], "=")
         IN  IF Len(split) # 2 THEN ParseFieldsSkips(lines, i + 1, m)
             ELSE ParseFieldsSkips(lines, i + 1,
                                   IndexMapInsert(m, split[1], split[2]))

RECURSIVE ParseFields(_, _, _)
\* the for loop of try_from, from line i on
ParseFields(lines, i, m) ==
    IF i > Len(lines) THEN Ok(m)
    ELSE LET split == Split(lines[i], "=")
         IN  IF Len(split) # 2 THEN ParseError("Invalid field format")
             ELSE ParseFields(lines, i + 1, IndexMapInsert(m, split[1], split[2]))

\* impl TryFrom<String> for DesktopEntry, with current_exe() = x
try_from(str, x) ==
    LET lines == Lines(str)
    IN  IF lines # <<>> /\ lines[1] # Header
        THEN ParseError("Not a desktop entry")
        ELSE LET parsed == ParseFields(lines, 2, <<>>)
             IN  IF ~parsed.ok THEN parsed
                 ELSE Ok(IndexMapOrInsert(parsed.data, ExecKey, x \o ExecSuffix))

\* a bug: every field line is terminated, the last one too
to_string_terminated(m) ==
    Header \o <<NL>> \o
    Join([i \in 1..Len(m) |-> m[i][1] \o <<"=">> \o m[i][2] \o <<NL>>], <<>>)

\* impl ToString for DesktopEntry
to_string(m) ==
    Header \o <<NL>> \o
    Join([i \in 1..Len(m) |-> m[i][1] \o <<"=">> \o m[i][2]], <<NL>>)

\* get_mime_types when the key is present: the non-empty pieces of the value
MimeTokens(value) == SelectSeq(Split(value, ";"), LAMBDA x : x # <<>>)

\* DesktopEntry::get_mime_types
get_mime_types(m) ==
    IF MimeTypeKey \in Keys(m)
    THEN [some |-> TRUE, val |-> MimeTokens(IndexMapGet(m, MimeTypeKey))]
    ELSE [some |-> FALSE, val |-> <<>>]

\* a bug: rposition instead of position
find_mime_type_last(split, starts_with) ==
    IF \E i \in 1..Len(split) : StartsWith(split[i], starts_with)
    THEN CHOOSE i \in 1..Len(split) :
            /\ StartsWith(split[i], starts_with)
            /\ \A j \in (i + 1)..Len(split) : ~StartsWith(split[j], starts_with)
    ELSE 0

\* DesktopEntry::find_mime_type: the first position, 0 for None
find_mime_type(split, starts_with) ==
    IF \E i \in 1..Len(split) : StartsWith(split[i], starts_with)
    THEN CHOOSE i \in 1..Len(split) :
            /\ StartsWith(split[i], starts_with)
            /\ \A j \in 1..(i - 1) : ~StartsWith(split[j], starts_with)
    ELSE 0

\* a bug: the handler is always pushed, never replaced
insert_scheme_handler_pushes(m, e) ==
    LET mt == get_mime_types(m)
    IN  IF mt.some
        THEN IndexMapInsert(m, MimeTypeKey, Join(Append(mt.val, e), <<";">>))
        ELSE IndexMapInsert(m, MimeTypeKey, e)

\* DesktopEntry::insert_scheme_handler
insert_scheme_handler(m, e) ==
    LET mt == get_mime_types(m)
    IN  IF mt.some
        THEN LET position == find_mime_type(mt.val, SchemePrefix)
                 split == IF position # 0
                          THEN [mt.val EXCEPT ![position] = e]
                          ELSE Append(mt.val, e)
             IN  IndexMapInsert(m, MimeTypeKey, Join(split, <<";">>))
        ELSE IndexMapInsert(m, MimeTypeKey, e)

\* Vec::remove
VecRemove(v, i) == SubSeq(v, 1, i - 1) \o SubSeq(v, i + 1, Len(v))

\* a bug: the emptied MimeType is stored as an empty value, not removed
delete_scheme_handler_keeps(m) ==
    LET mt == get_mime_types(m)
        position == find_mime_type(mt.val, SchemePrefix)
    IN  IF mt.some /\ position # 0
        THEN IndexMapInsert(m, MimeTypeKey,
                            Join(VecRemove(mt.val, position), <<";">>))
        ELSE m

\* DesktopEntry::delete_scheme_handler
delete_scheme_handler(m) ==
    LET mt == get_mime_types(m)
        position == find_mime_type(mt.val, SchemePrefix)
    IN  IF mt.some /\ position # 0
        THEN LET split == VecRemove(mt.val, position)
             IN  IF split # <<>>
                 THEN IndexMapInsert(m, MimeTypeKey, Join(split, <<";">>))
                 ELSE IndexMapShiftRemove(m, MimeTypeKey)
        ELSE m

----------------------------------------------------------------------------
(* Inputs *)

MaxLines == 3
MaxCalls == 2

\* a path where no file is, and a file with its bytes
NoFile == [exists |-> FALSE, bytes |-> <<>>]
File(b) == [exists |-> TRUE, bytes |-> b]
Names == {"app"}
Procs == {1, 2}

\* current_exe(): an ordinary path, and one with a '=' in a directory name
Exes == {<<"/","x">>, <<"/","=","/","x">>}

\* protocol_name
Schemes == {<<"a">>, <<"b","c">>, <<"a",";","b">>}
SchemeToken(x) == SchemePrefix \o x
Entries == {SchemeToken(x) : x \in Schemes}

Field(k, v) == k \o <<"=">> \o v

MimeValues ==
    { <<>>,
      SchemeToken(<<"a">>),
      <<"t",";">> \o SchemeToken(<<"a">>),
      SchemeToken(<<"a">>) \o <<";","t",";","u">>,
      SchemeToken(<<"a">>) \o <<";">> \o SchemeToken(<<"b">>),
      <<";","t",";",";","u">> }

LinePool ==
    { Field(<<"a">>, <<"1">>), Field(<<"a">>, <<"2">>), Field(<<"b">>, <<"1">>),
      Field(ExecKey, <<"x">>),
      <<"b","a","d">>, <<"a","=","1","=","2">> }
    \cup {Field(MimeTypeKey, v) : v \in MimeValues}

LineSeqs(n) == UNION {[1..k -> LinePool] : k \in 0..n}

RECURSIVE Render(_, _)
Render(head, lines) ==
    IF lines = <<>> THEN head
    ELSE Render(head \o <<NL>> \o lines[1], Tail(lines))

NotHeader == <<"[","N","o","t"," ">> \o Tail(Header)

\* the Strings given to try_from
Texts ==
    {<<>>, <<NL>>, NotHeader, Render(NotHeader, <<Field(<<"a">>, <<"1">>)>>)}
    \cup {Render(Header, l) : l \in LineSeqs(MaxLines)}
    \cup {Render(Header, l) \o <<NL>> : l \in LineSeqs(1)}

NoResult == [ok |-> FALSE, err |-> "none", msg |-> "", data |-> <<>>]
NoCall == [op |-> "none", name |-> "", protocol_name |-> <<>>, started |-> 0]

FlowIdle ==
    /\ files = [n \in Names |-> NoFile]
    /\ pc = [p \in Procs |-> "idle"]
    /\ call = [p \in Procs |-> NoCall]
    /\ content = [p \in Procs |-> <<>>]
    /\ de = [p \in Procs |-> NoResult]
    /\ pre = [p \in Procs |-> NoFile]
    /\ alone = [p \in Procs |-> TRUE]
    /\ hist = <<>>

UnitIdle ==
    /\ s = <<>>
    /\ res = NoResult
    /\ before = <<>>
    /\ data = <<>>
    /\ entry = <<>>
    /\ out = <<>>
    /\ stage = "new"

----------------------------------------------------------------------------
(* Unit level: the operations of DesktopEntry applied to one String, as   *)
(* the tests of the source apply them                                     *)

UnitInit ==
    /\ exe = <<"/","x">>
    /\ home = TRUE
    /\ FlowIdle
    /\ s \in Texts
    /\ res = NoResult
    /\ before = <<>>
    /\ data = <<>>
    /\ entry = <<>>
    /\ out = <<>>
    /\ stage = "new"

DoTryFrom ==
    /\ stage = "new"
    /\ res' = try_from(s, exe)
    /\ data' = res'.data
    /\ stage' = IF res'.ok THEN "decoded" ELSE "failed"
    /\ UNCHANGED <<exe, home, flowVars, s, before, entry, out>>

DoInsert(e) ==
    /\ stage = "decoded"
    /\ before' = data
    /\ entry' = e
    /\ data' = insert_scheme_handler(data, e)
    /\ stage' = "inserted"
    /\ UNCHANGED <<exe, home, flowVars, s, res, out>>

DoDelete ==
    /\ stage = "decoded"
    /\ before' = data
    /\ data' = delete_scheme_handler(data)
    /\ stage' = "deleted"
    /\ UNCHANGED <<exe, home, flowVars, s, res, entry, out>>

DoToString ==
    /\ stage \in {"decoded", "inserted", "deleted"}
    /\ out' = to_string(data)
    /\ stage' = CASE stage = "decoded" -> "decoded_s"
                  [] stage = "inserted" -> "inserted_s"
                  [] stage = "deleted" -> "deleted_s"
    /\ UNCHANGED <<exe, home, flowVars, s, res, before, data, entry>>

UnitNext ==
    \/ DoTryFrom
    \/ \E e \in Entries : DoInsert(e)
    \/ DoDelete
    \/ DoToString

SpecUnit == UnitInit /\ [][UnitNext]_vars

----------------------------------------------------------------------------
(* The register and unregister flows.  Each call runs in its own process; *)
(* its steps are its file system calls (open, read, set_len, write_at),   *)
(* which another process's steps may come between.  Failures of the file  *)
(* system calls themselves and of current_exe() are not modelled.         *)

\* the .desktop files the model starts from
FileInits ==
    { NoFile,
      File(<<>>),
      File(Render(Header, <<Field(<<"a">>, <<"1">>),
                            Field(MimeTypeKey, <<"t">>)>>)),
      File(Render(Header, <<Field(ExecKey, <<"x">>),
                            Field(MimeTypeKey,
                                  SchemeToken(<<"a">>) \o <<";","t">>),
                            Field(<<"b">>, <<"1">>)>>)),
      File(NotHeader),
      File(Render(Header, <<<<"b","a","d">>>>)) }

Init ==
    /\ exe \in Exes
    /\ home \in BOOLEAN
    /\ files \in [Names -> FileInits]
    /\ pc = [p \in Procs |-> "idle"]
    /\ call = [p \in Procs |-> NoCall]
    /\ content = [p \in Procs |-> <<>>]
    /\ de = [p \in Procs |-> NoResult]
    /\ pre = [p \in Procs |-> NoFile]
    /\ alone = [p \in Procs |-> TRUE]
    /\ hist = <<>>
    /\ UnitIdle

Running == {p \in Procs : pc[p] # "idle"}

\* the call of process p returns: it is recorded with the file as it is then
Return(p, c, result, fs, was, undisturbed) ==
    /\ hist' = Append(hist, [op |-> c.op, name |-> c.name,
                             protocol_name |-> c.protocol_name,
                             started |-> c.started,
                             pre |-> was, post |-> fs[c.name],
                             result |-> result, alone |-> undisturbed])
    /\ pc' = [pc EXCEPT ![p] = "idle"]
    /\ call' = [call EXCEPT ![p] = NoCall]

\* a bug: the file is opened with truncate(true)
get_file_truncates(p, c) ==
    /\ pre' = [pre EXCEPT ![p] = files[c.name]]
    /\ alone' = [q \in Procs |-> IF q = p THEN Running = {}
                                 ELSE IF q \in Running THEN FALSE ELSE alone[q]]
    /\ IF ~home
       THEN /\ files' = files
            /\ Return(p, c, "EnvError", files, files[c.name], Running = {})
       ELSE /\ files' = [files EXCEPT ![c.name] = File(<<>>)]
            /\ pc' = [pc EXCEPT ![p] = "try_from"]
            /\ call' = [call EXCEPT ![p] = c]
            /\ hist' = hist
    /\ UNCHANGED <<content, de>>

\* get_file, as the first statement of a call c of process p: HOME is read,
\* then the file is opened for reading and writing and created when absent
get_file(p, c) ==
    /\ pre' = [pre EXCEPT ![p] = files[c.name]]
    /\ alone' = [q \in Procs |-> IF q = p THEN Running = {}
                                 ELSE IF q \in Running THEN FALSE ELSE alone[q]]
    /\ IF ~home
       THEN /\ files' = files
            /\ Return(p, c, "EnvError", files, files[c.name], Running = {})
       ELSE /\ files' = [files EXCEPT ![c.name] =
                            IF files[c.name].exists THEN @ ELSE File(<<>>)]
            /\ pc' = [pc EXCEPT ![p] = "try_from"]
            /\ call' = [call EXCEPT ![p] = c]
            /\ hist' = hist
    /\ UNCHANGED <<content, de>>

MayStart(p) ==
    /\ pc[p] = "idle"
    /\ Len(hist) + Cardinality(Running) < MaxCalls

\* register, line 137
Register(p, name, protocol_name) ==
    /\ MayStart(p)
    /\ get_file(p, [op |-> "register", name |-> name,
                    protocol_name |-> protocol_name,
                    started |-> Len(hist) + Cardinality(Running)])
    /\ UNCHANGED <<exe, home, unitVars>>

\* unregister, line 148
Unregister(p, name) ==
    /\ MayStart(p)
    /\ get_file(p, [op |-> "unregister", name |-> name,
                    protocol_name |-> <<>>,
                    started |-> Len(hist) + Cardinality(Running)])
    /\ UNCHANGED <<exe, home, unitVars>>

\* a bug: a file that does not decode is taken for an empty descriptor
TryFromFileFallsBack(p) ==
    /\ pc[p] = "try_from"
    /\ content' = [content EXCEPT ![p] = files[call[p].name].bytes]
    /\ LET r == try_from(content'[p], exe)
       IN  de' = [de EXCEPT ![p] = IF r.ok THEN r ELSE try_from(<<>>, exe)]
    /\ pc' = [pc EXCEPT ![p] = IF call[p].op = "register" THEN "insert"
                               ELSE "delete"]
    /\ UNCHANGED <<exe, home, files, call, pre, alone, hist, unitVars>>

\* impl TryFrom<&mut File> for DesktopEntry, lines 138 and 149: the file is
\* read to its end and decoded; an error is returned to the caller
TryFromFile(p) ==
    /\ pc[p] = "try_from"
    /\ content' = [content EXCEPT ![p] = files[call[p].name].bytes]
    /\ de' = [de EXCEPT ![p] = try_from(content'[p], exe)]
    /\ IF de'[p].ok
       THEN /\ pc' = [pc EXCEPT ![p] = IF call[p].op = "register" THEN "insert"
                                       ELSE "delete"]
            /\ UNCHANGED <<call, hist>>
       ELSE Return(p, call[p], de'[p].err, files, pre[p], alone[p])
    /\ UNCHANGED <<exe, home, files, pre, alone, unitVars>>

\* register, line 140
RegisterInsert(p) ==
    /\ pc[p] = "insert"
    /\ de' = [de EXCEPT ![p].data =
                 insert_scheme_handler(@, SchemeToken(call[p].protocol_name))]
    /\ pc' = [pc EXCEPT ![p] = "set_len"]
    /\ UNCHANGED <<exe, home, files, call, content, pre, alone, hist, unitVars>>

\* register, line 142: file.set_len(0)
RegisterSetLen(p) ==
    /\ pc[p] = "set_len"
    /\ files' = [files EXCEPT ![call[p].name].bytes = <<>>]
    /\ pc' = [pc EXCEPT ![p] = "write_at"]
    /\ UNCHANGED <<exe, home, call, content, de, pre, alone, hist, unitVars>>

\* FileExt::write_at(buf, 0): the bytes from 0 on are overwritten, what the
\* file holds beyond them stays
WriteAt0(file, buf) == buf \o SubSeq(file, Len(buf) + 1, Len(file))

\* register, lines 143-144: the encoding is written at offset 0, Ok(())
RegisterWriteAt(p) ==
    /\ pc[p] = "write_at"
    /\ files' = [files EXCEPT ![call[p].name].bytes =
                                         WriteAt0(@, to_string(de[p].data))]
    /\ Return(p, call[p], "Ok", files', pre[p], alone[p])
    /\ UNCHANGED <<exe, home, content, de, pre, alone, unitVars>>

\* unregister, lines 151-153: the descriptor is mutated, Ok(())
UnregisterDelete(p) ==
    /\ pc[p] = "delete"
    /\ de' = [de EXCEPT ![p].data = delete_scheme_handler(@)]
    /\ Return(p, call[p], "Ok", files, pre[p], alone[p])
    /\ UNCHANGED <<exe, home, files, content, pre, alone, unitVars>>

Next ==
    \/ \E p \in Procs, n \in Names, pn \in Schemes : Register(p, n, pn)
    \/ \E p \in Procs, n \in Names : Unregister(p, n)
    \/ \E p \in Procs : TryFromFile(p)
    \/ \E p \in Procs : RegisterInsert(p)
    \/ \E p \in Procs : RegisterSetLen(p)
    \/ \E p \in Procs : RegisterWriteAt(p)
    \/ \E p \in Procs : UnregisterDelete(p)

Spec == Init /\ [][Next]_vars

----------------------------------------------------------------------------
(* Readings of a text that do not go through the operators above *)

CountChar(str, c) == Cardinality({i \in 1..Len(str) : str[i] = c})
FirstChar(str, c) ==
    CHOOSE i \in 1..Len(str) : str[i] = c /\ \A j \in 1..(i - 1) : str[j] # c
KeyOf(line) == SubSeq(line, 1, FirstChar(line, "=") - 1)
ValueOf(line) == SubSeq(line, FirstChar(line, "=") + 1, Len(line))

\* the text is accepted: no first line or the header, then key=value lines
Accepted(str) ==
    LET lines == Lines(str)
    IN  /\ lines = <<>> \/ lines[1] = Header
        /\ \A i \in 2..Len(lines) : CountChar(lines[i], "=") = 1

\* the fields of an accepted text: each key where it first occurs, with the
\* value of its last occurrence
FieldsOf(str) ==
    LET lines == Lines(str)
        n == IF lines = <<>> THEN 0 ELSE Len(lines) - 1
        K(i) == KeyOf(lines[i + 1])
        firsts == SelectSeq([i \in 1..n |-> i],
                            LAMBDA i : \A j \in 1..(i - 1) : K(j) # K(i))
        last(k) == CHOOSE j \in 1..n :
                      K(j) = k /\ \A j2 \in (j + 1)..n : K(j2) # k
    IN  [p \in 1..Len(firsts) |->
            <<K(firsts[p]), ValueOf(lines[1 + last(K(firsts[p]))])>>]

HasDuplicateKey(str) ==
    LET lines == Lines(str)
    IN  \E i, j \in 2..Len(lines) : i < j /\ KeyOf(lines[i]) = KeyOf(lines[j])

\* the descriptor format: the header, then one key=value line per field,
\* keys unique, lines joined by "\n"
Conforms(str) ==
    /\ Accepted(str)
    /\ Lines(str) # <<>>
    /\ str[Len(str)] # NL
    /\ ~HasDuplicateKey(str)

Without(m, k) == SelectSeq(m, LAMBDA e : e[1] # k)
Position(m, k) == CHOOSE i \in 1..Len(m) : m[i][1] = k
IsScheme(tok) ==
    /\ Len(tok) >= Len(SchemePrefix)
    /\ \A i \in 1..Len(SchemePrefix) : tok[i] = SchemePrefix[i]
SchemeCount(toks) == Cardinality({i \in 1..Len(toks) : IsScheme(toks[i])})
FirstScheme(toks) ==
    CHOOSE i \in 1..Len(toks) :
        IsScheme(toks[i]) /\ \A j \in 1..(i - 1) : ~IsScheme(toks[j])
NonScheme(toks) == SelectSeq(toks, LAMBDA x : ~IsScheme(x))
\* the tokens of the MimeType field of m, none when the field is absent
TokensIn(m) ==
    IF \E i \in 1..Len(m) : m[i][1] = MimeTypeKey
    THEN SelectSeq(Split(m[Position(m, MimeTypeKey)][2], ";"),
                   LAMBDA x : Len(x) > 0)
    ELSE <<>>
HasMimeType(m) == \E i \in 1..Len(m) : m[i][1] = MimeTypeKey
DefaultExec == <<ExecKey, exe \o ExecSuffix>>

----------------------------------------------------------------------------
(* Claims about the operations of DesktopEntry, under SpecUnit *)

HasExec(m) == \E i \in 1..Len(m) : m[i][1] = ExecKey
HeaderWrong(str) == Lines(str) # <<>> /\ Lines(str)[1] # Header

\* C9: try_from succeeds exactly when the text has no first line or its
\* first line is the header, and every other line holds exactly one '=';
\* otherwise it returns a ParseError and no descriptor.  On success the
\* mapping starts with the fields of the text: each key at the place of its
\* first occurrence, with the value of its last occurrence.
C9_DecodeAcceptance ==
    stage # "new" =>
        /\ res.ok <=> Accepted(s)
        /\ ~res.ok =>
              /\ res.err = "ParseError"
              /\ res.data = <<>>
              /\ res.msg = IF HeaderWrong(s) THEN "Not a desktop entry"
                           ELSE "Invalid field format"
        /\ res.ok =>
              /\ Len(res.data) >= Len(FieldsOf(s))
              /\ \A i \in 1..Len(FieldsOf(s)) : res.data[i] = FieldsOf(s)[i]

C9_Witness ==
    /\ stage = "decoded"
    /\ HasDuplicateKey(s)
    /\ Len(FieldsOf(s)) >= 2

InsertContract ==
    LET tb == TokensIn(before)
        ta == TokensIn(data)
    IN  /\ ~HasMimeType(before) =>
              /\ HasMimeType(data)
              /\ data[Position(data, MimeTypeKey)][2] = entry
        /\ (HasMimeType(before) /\ SchemeCount(tb) > 0) =>
              ta = [tb EXCEPT ![FirstScheme(tb)] = entry]
        /\ (HasMimeType(before) /\ SchemeCount(tb) = 0) =>
              ta = Append(tb, entry)
        /\ NonScheme(ta) = NonScheme(tb)

\* C7 as claimed: insert_scheme_handler sets MimeType to the token when the
\* field is absent, replaces the first scheme-handler token in place when
\* there is one, appends the token otherwise, and leaves the sequence of the
\* other tokens as it was, for every token x-scheme-handler/{scheme}.
C7_InsertAnyToken == stage = "inserted" => InsertContract

\* C7 as amended: the same, for a token that holds no ';'.
C7_InsertPlainToken ==
    (stage = "inserted" /\ CountChar(entry, ";") = 0) => InsertContract

C7_Witness ==
    /\ stage = "inserted"
    /\ CountChar(entry, ";") = 0
    /\ SchemeCount(TokensIn(before)) = 1
    /\ Len(TokensIn(before)) >= 3
    /\ TokensIn(data) # TokensIn(before)

\* what C8 says of delete_scheme_handler, but for its last sentence
DeleteContract ==
    LET tb == TokensIn(before)
    IN  /\ (~HasMimeType(before) \/ SchemeCount(tb) = 0) => data = before
        /\ (HasMimeType(before) /\ SchemeCount(tb) > 0) =>
              LET rest == [i \in 1..(Len(tb) - 1) |->
                              IF i < FirstScheme(tb) THEN tb[i] ELSE tb[i + 1]]
              IN  IF rest # <<>>
                  THEN data = [before EXCEPT ![Position(before, MimeTypeKey)] =
                                  <<MimeTypeKey, Join(rest, <<";">>)>>]
                  ELSE data = Without(before, MimeTypeKey)

\* C8 as claimed: delete_scheme_handler changes nothing when MimeType is
\* absent or lists no scheme-handler token; otherwise it removes the token
\* and stores the others in their order, or removes the field when none is
\* left; and so a MimeType field never has an empty token list afterwards.
C8_DeleteNeverEmpty ==
    stage = "deleted" =>
        /\ DeleteContract
        /\ HasMimeType(data) => TokensIn(data) # <<>>

\* C8 as amended: the same, but a MimeType field has an empty token list
\* afterwards only when the call changed nothing and the list was empty
\* before it.
C8_DeleteEmptyOnlyIfUntouched ==
    stage = "deleted" =>
        /\ DeleteContract
        /\ (HasMimeType(data) /\ TokensIn(data) = <<>>) =>
              (data = before /\ TokensIn(before) = <<>>)

C8_Witness ==
    /\ stage = "deleted"
    /\ SchemeCount(TokensIn(before)) = 1
    /\ Len(TokensIn(before)) = 1
    /\ Len(before) >= 3
    /\ ~HasMimeType(data)

\* C3 as claimed: after insert_scheme_handler or delete_scheme_handler, on
\* any decoded descriptor and with any token, MimeType lists at most one
\* scheme-handler token.
C3_AtMostOneAlways ==
    stage \in {"inserted", "deleted"} => SchemeCount(TokensIn(data)) <= 1

\* C3 as amended: after either mutation MimeType lists at most one
\* scheme-handler token, when it listed at most one before and the token
\* inserted holds no ';'.
C3_AtMostOnePreserved ==
    ( /\ stage \in {"inserted", "deleted"}
      /\ SchemeCount(TokensIn(before)) <= 1
      /\ CountChar(entry, ";") = 0 )
    => SchemeCount(TokensIn(data)) <= 1

C3_Witness ==
    /\ stage = "inserted"
    /\ CountChar(entry, ";") = 0
    /\ SchemeCount(TokensIn(before)) = 1
    /\ Len(TokensIn(before)) >= 2
    /\ SchemeCount(TokensIn(data)) = 1
    /\ data # before

\* C6: after try_from, a mutation and to_string, the fields of the output
\* other than MimeType are the fields of the input other than MimeType, with
\* their values and in their order, followed by the default Exec when the
\* input had no Exec; and a MimeType field that is in both is at the same
\* place in both.
C6_UntouchedFields ==
    stage \in {"inserted_s", "deleted_s"} =>
        LET fin == FieldsOf(s)
            fout == FieldsOf(out)
        IN  /\ Without(fout, MimeTypeKey) =
                  Without(fin, MimeTypeKey) \o
                  (IF HasExec(fin) THEN <<>> ELSE <<DefaultExec>>)
            /\ (HasMimeType(fin) /\ HasMimeType(fout)) =>
                  Position(fout, MimeTypeKey) = Position(fin, MimeTypeKey)

C6_Witness ==
    /\ stage = "inserted_s"
    /\ HasExec(FieldsOf(s))
    /\ HasMimeType(FieldsOf(s))
    /\ Position(FieldsOf(s), MimeTypeKey) < Len(FieldsOf(s))
    /\ FieldsOf(out) # FieldsOf(s)

----------------------------------------------------------------------------
(* Claims about register and unregister, under Spec *)

\* sub occurs in str
Contains(str, sub) ==
    \E i \in 1..(Len(str) - Len(sub) + 1) : SubSeq(str, i, i + Len(sub) - 1) = sub
\* the keys of the lines of a text that hold a '='
KeysInText(str) ==
    {KeyOf(Lines(str)[i]) : i \in {j \in 2..Len(Lines(str)) :
                                       CountChar(Lines(str)[j], "=") > 0}}
\* call i and call i + 1 of hist ran one after the other, nothing between
InSuccession(i) ==
    /\ i + 1 <= Len(hist)
    /\ hist[i].alone /\ hist[i + 1].alone
    /\ hist[i].name = hist[i + 1].name
Succeeded(r, op) == r.op = op /\ r.result = "Ok"
Plain(str) ==
    CountChar(str, ";") = 0 /\ CountChar(str, "=") = 0 /\ CountChar(str, NL) = 0

\* C1: after an unregister that succeeded, the file is the encoding of the
\* decoded content with delete_scheme_handler applied; and after a register
\* and then an unregister that both succeeded, the file no longer holds the
\* token the register wrote.
C1_UnregisterPersists ==
    /\ \A i \in 1..Len(hist) :
          (Succeeded(hist[i], "unregister") /\ hist[i].alone) =>
              hist[i].post.bytes =
                  to_string(delete_scheme_handler(
                      try_from(hist[i].pre.bytes, exe).data))
    /\ \A i \in 1..Len(hist) :
          ( /\ InSuccession(i)
            /\ Succeeded(hist[i], "register")
            /\ Succeeded(hist[i + 1], "unregister") )
          => ~Contains(hist[i + 1].post.bytes,
                       SchemeToken(hist[i].protocol_name))

\* what C2 says of two register calls in succession, from an empty or absent
\* file, with the same protocol scheme
Idempotent(i) ==
    ( /\ InSuccession(i)
      /\ Succeeded(hist[i], "register")
      /\ hist[i + 1].op = "register"
      /\ hist[i + 1].protocol_name = hist[i].protocol_name
      /\ hist[i].pre.bytes = <<>> )
    => /\ hist[i + 1].result = "Ok"
       /\ hist[i + 1].post = hist[i].post
       /\ TokensIn(FieldsOf(hist[i + 1].post.bytes)) =
              <<SchemeToken(hist[i].protocol_name)>>

\* C2 as claimed: register is idempotent for every protocol scheme.
C2_IdempotentAnyScheme == \A i \in 1..Len(hist) : Idempotent(i)

\* C2 as amended: register is idempotent when the protocol scheme holds no
\* ';', '=' or line break and the path of the executable no '=' or line
\* break.
C2_IdempotentPlainScheme ==
    \A i \in 1..Len(hist) :
        ( /\ Plain(hist[i].protocol_name)
          /\ CountChar(exe, "=") = 0 /\ CountChar(exe, NL) = 0 )
        => Idempotent(i)

C2_Witness ==
    /\ Len(hist) >= 2
    /\ InSuccession(1)
    /\ Succeeded(hist[1], "register") /\ Succeeded(hist[2], "register")
    /\ hist[2].protocol_name = hist[1].protocol_name
    /\ ~hist[1].pre.exists
    /\ hist[2].post = hist[1].post
    /\ files[hist[2].name] = hist[2].post

\* C5: a call on an existing file that does not decode returns a ParseError
\* and leaves the file as it was; and a call is at set_len or write_at only
\* with content that decoded.
C5_DecodeFailureKeepsFile ==
    /\ \A i \in 1..Len(hist) :
          ( /\ hist[i].alone
            /\ home
            /\ hist[i].pre.exists
            /\ ~Accepted(hist[i].pre.bytes) )
          => (hist[i].result = "ParseError" /\ hist[i].post = hist[i].pre)
    /\ \A p \in Procs :
          pc[p] \in {"insert", "set_len", "write_at"} => Accepted(content[p])

C5_Witness ==
    \E i \in 1..Len(hist) :
        /\ hist[i].op = "register"
        /\ hist[i].alone
        /\ hist[i].pre.exists
        /\ ~Accepted(hist[i].pre.bytes)
        /\ Lines(hist[i].pre.bytes)[1] = Header
        /\ hist[i].result = "ParseError"

\* after two register calls in succession that succeeded, the file holds
\* every field of the file before them and the token of the second call
SecondKeeps(i) ==
    /\ KeysInText(hist[i].pre.bytes) \subseteq KeysInText(hist[i + 1].post.bytes)
    /\ Contains(hist[i + 1].post.bytes, SchemeToken(hist[i + 1].protocol_name))
TwoRegisters(i) ==
    /\ InSuccession(i)
    /\ Succeeded(hist[i], "register")
    /\ Succeeded(hist[i + 1], "register")

====
